---- MODULE Spec2Model ----
(***************************************************************************)
(* The three experiments of src/components/MechanicsLab.tsx, shown one at   *)
(* a time by the tabs of BubbleScienceLab.                                 *)
(* MechanicsExperiment: two connected bubbles, a valve, and a              *)
(* requestAnimationFrame loop that moves air from the bubble of higher     *)
(* Laplace pressure to the other one.                                      *)
(* GeometryExperiment: four corners of a square joined by the diagonals or *)
(* by a soap film with two junctions, and the length of either.            *)
(* OpticsExperiment: a film thickness and its interference colour.         *)
(*                                                                         *)
(* Numbers.  The program computes in IEEE doubles; the model computes in   *)
(* fixed point with truncation:                                            *)
(*   radii     in units of 1/RUnit  (10^-4),                               *)
(*   volumes   in units of 1/VUnit  (10^-7),                               *)
(*   pressures in units of 1/PUnit  (10^-3).                               *)
(* (4/3)*PI*r^3 is R^3 / SphereDen in these units, SphereDen being         *)
(* 3*RUnit^3 / (4*PI*VUnit) rounded to an integer.  Every intermediate     *)
(* value stays below 2^31.                                                 *)
(*                                                                         *)
(* React.  State updates made by a user event are rendered and their       *)
(* effects run before the event ends (a discrete event: synchronous lane,  *)
(* passive effects flushed with the commit); that render also processes    *)
(* the updates a frame callback has queued before it.  Updates made in a   *)
(* requestAnimationFrame callback are batched and rendered later, by the   *)
(* action Render, which may come after further frames.  A useState queue   *)
(* of plain values yields its last value, so the queue is kept as the      *)
(* record `queued` of the values the next render will commit.              *)
(***************************************************************************)
EXTENDS Integers, FiniteSets, Sequences, TLC

VARIABLES
    activeTab,   \* BubbleScienceLab: the selected tab
    mounted,     \* MechanicsExperiment is mounted
    r1, r2,      \* useState radii of the last committed render
    valveOpen,   \* useState, last committed render
    animating,   \* useState, last committed render
    queued,      \* [r1, r2, valveOpen, animating]: result of the queued updates
    stateRef,    \* useRef: [v1, v2], the stored volumes
    rafId,       \* `let rafId` of the live animation effect (0: undefined)
    rafPending,  \* requested animation-frame callbacks, not yet run or cancelled
    atOpen,      \* history: order of r1, r2 and stored total when the valve was opened
    frames,      \* history: frame callbacks run since mount
    mode,        \* GeometryExperiment: useState mode ("none": not mounted)
    shownLength, \* GeometryExperiment: the drawn 'Total Path Length' text
    thickness,   \* OpticsExperiment: useState thickness, in nm
    color,       \* OpticsExperiment: the drawn colour ("none": not mounted)
    last         \* history: the last action taken

vars == <<activeTab, mounted, r1, r2, valveOpen, animating, queued, stateRef,
          rafId, rafPending, atOpen, frames, mode, shownLength, thickness,
          color, last>>

----------------------------------------------------------------------------
(* Bounds of the model *)

\* how many of the 18 slider stops the user may choose
NumStops == 3
\* frame callbacks run per mount
MaxFrames == 6
\* how far beyond the thickness slider's range interferenceColor is tried
ThicknessSlack == 60
\* frames after which the user of a watched run makes no further input
SetupFrames == 2

----------------------------------------------------------------------------
(* Fixed-point units *)

RUnit == 10^4
VUnit == 10^7
PUnit == 10^3
\* (4/3)*PI*r^3 = R^3 / SphereDen, R in 1/RUnit, the volume in 1/VUnit
SphereDen == 23873
\* radii are searched in 0 .. RadiusCeil (3.2768, a volume of 147)
RadiusCeil == 2^15

Max(a, b) == IF a >= b THEN a ELSE b
Abs(a) == IF a >= 0 THEN a ELSE 0 - a

\* floor(a * m / d) for a, m >= 0 without forming a * m
MulDiv(a, m, d) == (a \div d) * m + ((a % d) * m) \div d

----------------------------------------------------------------------------
(* Program constants *)

SURFACE_TENSION == 50
\* FLOW_RATE_CONSTANT = 0.0005, times 10^4
FLOW_RATE_CONSTANT_E4 == 5
\* Math.max(0.0001, v): 0.0001, times 10^4
VOLUME_FLOOR_E4 == 1
\* curR < 0.2: 0.2, times 10
COLLAPSE_RADIUS_E1 == 2
\* Math.max(0.1, r): 0.1, times 10
DISPLAY_RADIUS_E1 == 1
\* useState(1.2), useState(0.8), and Reset: times 10
INITIAL_R1_E1 == 12
INITIAL_R2_E1 == 8

VolumeFloor == VOLUME_FLOOR_E4 * (VUnit \div 10^4)
CollapseRadius == COLLAPSE_RADIUS_E1 * (RUnit \div 10)
DisplayRadiusFloor == DISPLAY_RADIUS_E1 * (RUnit \div 10)
InitialR1 == INITIAL_R1_E1 * (RUnit \div 10)
InitialR2 == INITIAL_R2_E1 * (RUnit \div 10)

\* <input type="range" min="0.3" max="2.0" step="0.1">, in tenths, in the
\* order in which the model takes them up
SliderOrder == <<3, 8, 12, 20, 5, 10, 15, 4, 6, 7, 9, 11, 13, 14, 16, 17, 18, 19>>
SliderValues == {SliderOrder[i] * (RUnit \div 10) : i \in 1..NumStops}

Tabs == {"mechanics", "geometry", "optics"}

----------------------------------------------------------------------------
(* The arithmetic of the component *)

\* (4/3) * Math.PI * Math.pow(r, 3)
SphereVolume(r) == MulDiv(r * r, r, SphereDen)

\* the largest radius in lo .. hi whose sphere volume is at most v
\* (mid ranges over a one-element set: TLC then computes it once per call)
RECURSIVE RadiusSearch(_, _, _)
RadiusSearch(lo, hi, v) ==
    IF lo >= hi THEN lo
    ELSE CHOOSE r \in {IF SphereVolume(mid) <= v
                       THEN RadiusSearch(mid, hi, v)
                       ELSE RadiusSearch(lo, mid - 1, v)
                       : mid \in {(lo + hi + 1) \div 2}} : TRUE

\* Math.pow((3 * v) / (4 * Math.PI), 1/3)
VolumeRadius(v) == CHOOSE r \in {RadiusSearch(0, RadiusCeil, w) : w \in {v}} : TRUE

\* the volume without its floor
SafeVolumeUnclamped(v) == v

\* Math.max(0.0001, v)
SafeVolume(v) == Max(VolumeFloor, v)

\* curR1, curR2 of step, and the argument of setR1, setR2
RecoveredRadius(v) == VolumeRadius(SafeVolume(v))

\* (2 * SURFACE_TENSION) / r
Pressure(r) == (2 * SURFACE_TENSION * PUnit * RUnit) \div r

\* (p1 - p2) * FLOW_RATE_CONSTANT, a volume
Flow(p1, p2) == (p1 - p2) * FLOW_RATE_CONSTANT_E4 * (VUnit \div (PUnit * 10^4))

\* curR1 < 0.2 || curR2 < 0.2
Collapsed(ref) ==
    \/ RecoveredRadius(ref.v1) < CollapseRadius
    \/ RecoveredRadius(ref.v2) < CollapseRadius

\* const flow = (p1 - p2) * FLOW_RATE_CONSTANT of step, for the stored volumes
StepFlow(ref) ==
    Flow(Pressure(RecoveredRadius(ref.v1)), Pressure(RecoveredRadius(ref.v2)))

\* the flow subtracted from both volumes
StepVolumesSignSlip(ref) ==
    [v1 |-> ref.v1 - StepFlow(ref), v2 |-> ref.v2 - StepFlow(ref)]

\* stateRef.current = { v1: v1 - flow, v2: v2 + flow }
StepVolumes(ref) ==
    [v1 |-> ref.v1 - StepFlow(ref), v2 |-> ref.v2 + StepFlow(ref)]

\* the volume sync effect: stateRef.current = { v1: vol1, v2: vol2 }
SyncedVolumes(a, b) == [v1 |-> SphereVolume(a), v2 |-> SphereVolume(b)]

----------------------------------------------------------------------------
(* What is drawn *)

\* the drawn pressure without the factor 2
DisplayPressureHalved(r) ==
    (SURFACE_TENSION * PUnit * RUnit) \div Max(DisplayRadiusFloor, r)

\* const p1 = (2 * SURFACE_TENSION) / Math.max(0.1, r1)
DisplayPressure(r) == Pressure(Max(DisplayRadiusFloor, r))

\* pressure.toFixed(1), in tenths
PressureText(p) == (p + PUnit \div 20) \div (PUnit \div 10)

\* radius.toFixed(2), in hundredths
RadiusText(r) == (r + RUnit \div 200) \div (RUnit \div 100)

\* const flowDir = Math.abs(r1 - r2) < 0.01 ? 'none' : (r1 < r2 ? 'right' : 'left')
FlowDir(a, b) ==
    IF Abs(a - b) < RUnit \div 100 THEN "none"
    ELSE IF a < b THEN "right" ELSE "left"

----------------------------------------------------------------------------
(* requestAnimationFrame *)

\* the handle requestAnimationFrame returns: one no pending callback has
FreshId(pending) ==
    CHOOSE i \in 1..(Cardinality(pending) + 1) : \A cb \in pending : cb.id # i

\* requestAnimationFrame(step): step closes over the effect's valveOpen
RequestAnimationFrame(pending, open) ==
    pending \cup {[id |-> FreshId(pending), valveOpen |-> open]}

\* a cleanup that cancels nothing
CancelNothing(pending, id) == pending

\* cancelAnimationFrame(rafId)
CancelAnimationFrame(pending, id) == {cb \in pending : cb.id # id}

----------------------------------------------------------------------------
(* Rendering *)

Committed == [r1 |-> r1, r2 |-> r2, valveOpen |-> valveOpen, animating |-> animating]

NoRun == [order |-> "none", total |-> 0]

Order(a, b) == IF a < b THEN "lt" ELSE IF a > b THEN "gt" ELSE "eq"

\* useEffect(..., [r1, r2, animating]): runs when a dependency changed
VolumeSyncEffect(n) ==
    IF (n.r1 # r1 \/ n.r2 # r2 \/ n.animating # animating) /\ ~n.animating
    THEN SyncedVolumes(n.r1, n.r2)
    ELSE stateRef

\* useEffect(..., [valveOpen]): the cleanup of the old effect, then the new one
AnimationEffect(n) ==
    IF n.valveOpen = valveOpen
    THEN [pending |-> rafPending, id |-> rafId]
    ELSE LET cleaned == CancelAnimationFrame(rafPending, rafId)
         IN  IF n.valveOpen
             THEN [pending |-> RequestAnimationFrame(cleaned, n.valveOpen),
                   id |-> FreshId(cleaned)]
             ELSE [pending |-> cleaned, id |-> 0]

\* a render that commits the state n, followed by its effects
Commit(n) ==
    /\ r1' = n.r1
    /\ r2' = n.r2
    /\ valveOpen' = n.valveOpen
    /\ animating' = n.animating
    /\ queued' = n
    /\ stateRef' = VolumeSyncEffect(n)
    /\ rafPending' = AnimationEffect(n).pending
    /\ rafId' = AnimationEffect(n).id
    /\ atOpen' = IF n.valveOpen = valveOpen THEN atOpen
                 ELSE IF n.valveOpen
                      THEN [order |-> Order(n.r1, n.r2),
                            total |-> VolumeSyncEffect(n).v1 + VolumeSyncEffect(n).v2]
                      ELSE NoRun

----------------------------------------------------------------------------
(* The state of a freshly mounted MechanicsExperiment, its effects run *)

Fresh ==
    /\ r1 = InitialR1
    /\ r2 = InitialR2
    /\ valveOpen = FALSE
    /\ animating = FALSE
    /\ queued = [r1 |-> InitialR1, r2 |-> InitialR2, valveOpen |-> FALSE,
                 animating |-> FALSE]
    /\ stateRef = SyncedVolumes(InitialR1, InitialR2)
    /\ rafId = 0
    /\ rafPending = {}
    /\ atOpen = NoRun
    /\ frames = 0

\* GeometryExperiment and OpticsExperiment are not mounted
NoGeometry == mode = "none" /\ shownLength = 0
NoOptics == thickness = 0 /\ color = "none"

Init ==
    /\ activeTab = "mechanics"
    /\ mounted = TRUE
    /\ Fresh
    /\ NoGeometry
    /\ NoOptics
    /\ last = "mount"

----------------------------------------------------------------------------
(* User events on the mounted component *)

\* the handlers' state updates, applied to the queued state q
\* setValveOpen(!valveOpen), valveOpen being that of the committed render
ValveUpdates(q, open) == [q EXCEPT !.valveOpen = ~open]

\* setValveOpen(false); setR1(parseFloat(e.target.value))
SlideR1Updates(q, x) == [q EXCEPT !.valveOpen = FALSE, !.r1 = x]

\* setValveOpen(false); setR2(parseFloat(e.target.value))
SlideR2Updates(q, x) == [q EXCEPT !.valveOpen = FALSE, !.r2 = x]

\* the Reset button with setValveOpen(true)
ResetOpensValve(q) == [q EXCEPT !.valveOpen = TRUE, !.r1 = InitialR1, !.r2 = InitialR2]

\* setValveOpen(false); setR1(1.2); setR2(0.8)
ResetUpdates(q) == [q EXCEPT !.valveOpen = FALSE, !.r1 = InitialR1, !.r2 = InitialR2]

\* onClick={() => setValveOpen(!valveOpen)}
ClickValve ==
    /\ mounted
    /\ Commit(ValveUpdates(queued, valveOpen))
    /\ last' = "valve"
    /\ UNCHANGED <<activeTab, mounted, frames, mode, shownLength, thickness, color>>

\* <input type="range" ... onChange={...} disabled={valveOpen}>
SlideR1(x) ==
    /\ mounted
    /\ ~valveOpen
    /\ Commit(SlideR1Updates(queued, x))
    /\ last' = "slider"
    /\ UNCHANGED <<activeTab, mounted, frames, mode, shownLength, thickness, color>>

SlideR2(x) ==
    /\ mounted
    /\ ~valveOpen
    /\ Commit(SlideR2Updates(queued, x))
    /\ last' = "slider"
    /\ UNCHANGED <<activeTab, mounted, frames, mode, shownLength, thickness, color>>

\* onClick={() => {setValveOpen(false); setR1(1.2); setR2(0.8);}}
ClickReset ==
    /\ mounted
    /\ Commit(ResetUpdates(queued))
    /\ last' = "reset"
    /\ UNCHANGED <<activeTab, mounted, frames, mode, shownLength, thickness, color>>

----------------------------------------------------------------------------
(* The animation frame *)

\* a collapse branch without its return: the flow follows
CollapseFallsThrough(ref) == StepVolumes(ref)

\* the collapse branch returns before the flow: stateRef keeps its volumes
CollapseVolumes(ref) == ref

\* the state updates of step's collapse branch
CollapseUpdates(q) == [q EXCEPT !.valveOpen = FALSE, !.animating = FALSE]

\* setR1, setR2 with the radius of the unclamped volume
FlowUpdatesUnclamped(q, ref) ==
    [q EXCEPT !.animating = TRUE,
              !.r1 = VolumeRadius(ref.v1),
              !.r2 = VolumeRadius(ref.v2)]

\* the state updates of a flow step that leaves the volumes ref
FlowUpdates(q, ref) ==
    [q EXCEPT !.animating = TRUE,
              !.r1 = RecoveredRadius(ref.v1),
              !.r2 = RecoveredRadius(ref.v2)]

\* the body of the callback cb = step
Step(cb) ==
    /\ IF cb.valveOpen
       THEN IF Collapsed(stateRef)
            THEN /\ queued' = CollapseUpdates(queued)
                 /\ stateRef' = CollapseVolumes(stateRef)
                 /\ rafPending' = rafPending \ {cb}
                 /\ rafId' = rafId
                 /\ last' = "collapse"
            ELSE /\ stateRef' = StepVolumes(stateRef)
                 /\ queued' = FlowUpdates(queued, StepVolumes(stateRef))
                 /\ rafPending' = RequestAnimationFrame(rafPending \ {cb}, cb.valveOpen)
                 /\ rafId' = FreshId(rafPending \ {cb})
                 /\ last' = "step"
       ELSE /\ queued' = [queued EXCEPT !.animating = FALSE]
            /\ stateRef' = stateRef
            /\ rafPending' = rafPending \ {cb}
            /\ rafId' = rafId
            /\ last' = "idle"
    /\ UNCHANGED <<activeTab, mounted, r1, r2, valveOpen, animating, atOpen>>
    /\ UNCHANGED <<mode, shownLength, thickness, color>>

\* the browser runs the callback cb
Frame(cb) ==
    /\ cb \in rafPending
    /\ frames < MaxFrames
    /\ frames' = frames + 1
    /\ Step(cb)

\* React renders the updates queued by frame callbacks
Render ==
    /\ mounted
    /\ queued # Committed
    /\ Commit(queued)
    /\ last' = "render"
    /\ UNCHANGED <<activeTab, mounted, frames, mode, shownLength, thickness, color>>

----------------------------------------------------------------------------
(* The tabs of BubbleScienceLab *)

\* onClick={() => setActiveTab(t)}
SelectTab(t) ==
    /\ t # activeTab
    /\ activeTab' = t
    /\ last' = "tab"
    /\ UNCHANGED <<mounted, r1, r2, valveOpen, animating, queued, stateRef,
                   rafId, rafPending, atOpen, frames>>
    /\ UNCHANGED <<mode, shownLength, thickness, color>>

\* {activeTab === 'mechanics' && ...}: the exit animation over, the component
\* is unmounted; the cleanup of its animation effect runs, its state is dropped
Unmount ==
    /\ mounted
    /\ activeTab # "mechanics"
    /\ mounted' = FALSE
    /\ rafPending' = CancelAnimationFrame(rafPending, rafId)
    /\ r1' = InitialR1
    /\ r2' = InitialR2
    /\ valveOpen' = FALSE
    /\ animating' = FALSE
    /\ queued' = [r1 |-> InitialR1, r2 |-> InitialR2, valveOpen |-> FALSE,
                  animating |-> FALSE]
    /\ stateRef' = [v1 |-> 0, v2 |-> 0]
    /\ rafId' = 0
    /\ atOpen' = NoRun
    /\ frames' = 0
    /\ last' = "unmount"
    /\ UNCHANGED <<activeTab, mode, shownLength, thickness, color>>

\* the mechanics tab selected again: a new MechanicsExperiment, once the
\* experiment that was shown has left (AnimatePresence mode="wait")
Mount ==
    /\ ~mounted
    /\ NoGeometry
    /\ NoOptics
    /\ activeTab = "mechanics"
    /\ mounted' = TRUE
    /\ r1' = InitialR1
    /\ r2' = InitialR2
    /\ valveOpen' = FALSE
    /\ animating' = FALSE
    /\ queued' = [r1 |-> InitialR1, r2 |-> InitialR2, valveOpen |-> FALSE,
                  animating |-> FALSE]
    /\ stateRef' = SyncedVolumes(InitialR1, InitialR2)
    /\ rafId' = 0
    /\ rafPending' = {}
    /\ atOpen' = NoRun
    /\ frames' = 0
    /\ last' = "mount"
    /\ UNCHANGED <<activeTab, mode, shownLength, thickness, color>>

----------------------------------------------------------------------------
(* OpticsExperiment: thickness -> colour *)

\* useState(400)
THICKNESS_INITIAL == 400
\* <input type="range" min="0" max="1000" step="10">
THICKNESS_MAX == 1000
THICKNESS_STEP == 10
SliderThicknesses == {i * THICKNESS_STEP : i \in 0..(THICKNESS_MAX \div THICKNESS_STEP)}

\* interferenceColor with its tests read as "at or below"
interferenceColorInclusive(t0) ==
    LET t == Max(0, t0)
    IN  IF t <= 30 THEN "rgb(20, 20, 20)"
        ELSE IF t <= 120 THEN "rgb(240, 240, 250)"
        ELSE IF t <= 250 THEN "rgb(255, 220, 100)"
        ELSE IF t <= 350 THEN "rgb(200, 50, 255)"
        ELSE IF t <= 450 THEN "rgb(50, 100, 255)"
        ELSE IF t <= 550 THEN "rgb(50, 255, 150)"
        ELSE IF t <= 650 THEN "rgb(255, 255, 50)"
        ELSE IF t <= 800 THEN "rgb(255, 100, 100)"
        ELSE "rgb(100, 200, 200)"

\* interferenceColor without its `t < 450` line
interferenceColorSkipsBlue(t0) ==
    LET t == Max(0, t0)
    IN  IF t < 30 THEN "rgb(20, 20, 20)"
        ELSE IF t < 120 THEN "rgb(240, 240, 250)"
        ELSE IF t < 250 THEN "rgb(255, 220, 100)"
        ELSE IF t < 350 THEN "rgb(200, 50, 255)"
        ELSE IF t < 550 THEN "rgb(50, 255, 150)"
        ELSE IF t < 650 THEN "rgb(255, 255, 50)"
        ELSE IF t < 800 THEN "rgb(255, 100, 100)"
        ELSE "rgb(100, 200, 200)"

\* const t = Math.max(0, thickness); if (t < 30) return ...; ...
interferenceColor(t0) ==
    LET t == Max(0, t0)
    IN  IF t < 30 THEN "rgb(20, 20, 20)"
        ELSE IF t < 120 THEN "rgb(240, 240, 250)"
        ELSE IF t < 250 THEN "rgb(255, 220, 100)"
        ELSE IF t < 350 THEN "rgb(200, 50, 255)"
        ELSE IF t < 450 THEN "rgb(50, 100, 255)"
        ELSE IF t < 550 THEN "rgb(50, 255, 150)"
        ELSE IF t < 650 THEN "rgb(255, 255, 50)"
        ELSE IF t < 800 THEN "rgb(255, 100, 100)"
        ELSE "rgb(100, 200, 200)"

\* the optics tab selected: a new OpticsExperiment, once the experiment that
\* was shown has left; its first render draws interferenceColor(thickness)
MountOptics ==
    /\ ~mounted
    /\ NoGeometry
    /\ NoOptics
    /\ activeTab = "optics"
    /\ thickness' = THICKNESS_INITIAL
    /\ color' = interferenceColor(THICKNESS_INITIAL)
    /\ last' = "mountOptics"
    /\ UNCHANGED <<activeTab, mounted, r1, r2, valveOpen, animating, queued,
                   stateRef, rafId, rafPending, atOpen, frames, mode, shownLength>>

\* onChange={(e) => setThickness(parseInt(e.target.value))}, and the render
SetThickness(t) ==
    /\ color # "none"
    /\ thickness' = t
    /\ color' = interferenceColor(t)
    /\ last' = "thickness"
    /\ UNCHANGED <<activeTab, mounted, r1, r2, valveOpen, animating, queued,
                   stateRef, rafId, rafPending, atOpen, frames, mode, shownLength>>

\* {activeTab === 'optics' && ...}: the exit animation over, its state is dropped
UnmountOptics ==
    /\ color # "none"
    /\ activeTab # "optics"
    /\ thickness' = 0
    /\ color' = "none"
    /\ last' = "unmountOptics"
    /\ UNCHANGED <<activeTab, mounted, r1, r2, valveOpen, animating, queued,
                   stateRef, rafId, rafPending, atOpen, frames, mode, shownLength>>

----------------------------------------------------------------------------
(* GeometryExperiment: four corners joined by diagonals or by a soap film *)

\* lengths in units of 1/LUnit of the square's side, pixels in 1/PxUnit
LUnit == 10^4
PxUnit == 10^2
\* square roots are searched in 0 .. SqrtCeil
SqrtCeil == 2^15

RECURSIVE SqrtSearch(_, _, _)
\* the largest s in lo .. hi with s * s <= n
\* (mid ranges over a one-element set: TLC then computes it once per call)
SqrtSearch(lo, hi, n) ==
    IF lo >= hi THEN lo
    ELSE CHOOSE s \in {IF mid * mid <= n
                       THEN SqrtSearch(mid, hi, n)
                       ELSE SqrtSearch(lo, mid - 1, n)
                       : mid \in {(lo + hi + 1) \div 2}} : TRUE

\* Math.sqrt(k), in 1/LUnit, truncated
Sqrt(k) == SqrtSearch(0, SqrtCeil, k * LUnit * LUnit)

\* x.toFixed(3) of a length, in thousandths
ToFixed3(x) == (x + LUnit \div 2000) \div (LUnit \div 1000)

\* const sideLength = 1.0
sideLength == LUnit
\* 2 * Math.sqrt(2) * sideLength
lenDirect == MulDiv(2 * Sqrt(2), sideLength, LUnit)
\* sideLength * (1 + Math.sqrt(3))
lenSoap == MulDiv(sideLength, LUnit + Sqrt(3), LUnit)

\* {mode === 'direct' ? lenDirect.toFixed(3) : lenSoap.toFixed(3)}, the tests swapped
PathLengthSwapped(m) == IF m = "direct" THEN ToFixed3(lenSoap) ELSE ToFixed3(lenDirect)
\* {mode === 'direct' ? lenDirect.toFixed(3) : lenSoap.toFixed(3)}
PathLengthText(m) == IF m = "direct" THEN ToFixed3(lenDirect) ELSE ToFixed3(lenSoap)

\* const p = { tl, tr, bl, br }
p == [tl |-> [x |-> 50 * PxUnit, y |-> 50 * PxUnit],
      tr |-> [x |-> 250 * PxUnit, y |-> 50 * PxUnit],
      bl |-> [x |-> 50 * PxUnit, y |-> 250 * PxUnit],
      br |-> [x |-> 250 * PxUnit, y |-> 250 * PxUnit]]

\* the offset taken from the whole side: 200 / Math.sqrt(3)
offsetOfSide == MulDiv(200 * PxUnit, LUnit, Sqrt(3))
\* const offset = 100 / Math.sqrt(3)
offset == MulDiv(100 * PxUnit, LUnit, Sqrt(3))

\* the junctions put on the left third line, as the unused s1 is
junctionOffMidline(y) == [x |-> 100 * PxUnit, y |-> y]
\* { x: 150, y: ... }
junction(y) == [x |-> 150 * PxUnit, y |-> y]
sp1 == junction(50 * PxUnit + offset)
sp2 == junction(250 * PxUnit - offset)

\* the <line> elements drawn for mode m, each from a to b
Lines(m) ==
    IF m = "direct"
    THEN {[a |-> p.tl, b |-> p.br], [a |-> p.tr, b |-> p.bl]}
    ELSE {[a |-> p.tl, b |-> sp1], [a |-> p.tr, b |-> sp1],
          [a |-> sp1, b |-> sp2],
          [a |-> p.bl, b |-> sp2], [a |-> p.br, b |-> sp2]}

Modes == {"direct", "soap"}

\* the geometry tab selected: a new GeometryExperiment (useState('soap')),
\* once the experiment that was shown has left
MountGeometry ==
    /\ ~mounted
    /\ NoGeometry
    /\ NoOptics
    /\ activeTab = "geometry"
    /\ mode' = "soap"
    /\ shownLength' = PathLengthText("soap")
    /\ last' = "mountGeometry"
    /\ UNCHANGED <<activeTab, mounted, r1, r2, valveOpen, animating, queued,
                   stateRef, rafId, rafPending, atOpen, frames, thickness, color>>

\* onClick={() => setMode(m)}, and the render
SetMode(m) ==
    /\ mode # "none"
    /\ mode' = m
    /\ shownLength' = PathLengthText(m)
    /\ last' = "mode"
    /\ UNCHANGED <<activeTab, mounted, r1, r2, valveOpen, animating, queued,
                   stateRef, rafId, rafPending, atOpen, frames, thickness, color>>

\* {activeTab === 'geometry' && ...}: the exit animation over, its state is dropped
UnmountGeometry ==
    /\ mode # "none"
    /\ activeTab # "geometry"
    /\ mode' = "none"
    /\ shownLength' = 0
    /\ last' = "unmountGeometry"
    /\ UNCHANGED <<activeTab, mounted, r1, r2, valveOpen, animating, queued,
                   stateRef, rafId, rafPending, atOpen, frames, thickness, color>>

----------------------------------------------------------------------------

Next ==
    \/ ClickValve
    \/ \E x \in SliderValues : SlideR1(x)
    \/ \E x \in SliderValues : SlideR2(x)
    \/ ClickReset
    \/ \E cb \in rafPending : Frame(cb)
    \/ Render
    \/ \E t \in Tabs : SelectTab(t)
    \/ Unmount
    \/ Mount
    \/ MountOptics
    \/ \E t \in SliderThicknesses : SetThickness(t)
    \/ UnmountOptics
    \/ MountGeometry
    \/ \E m \in Modes : SetMode(m)
    \/ UnmountGeometry

Spec == Init /\ [][Next]_vars

----------------------------------------------------------------------------
(* A run that is left alone: the user acts until SetupFrames frames have    *)
(* run and then only watches; the browser keeps running the requested      *)
(* frames and React keeps rendering the queued updates.  Frames are        *)
(* counted up to SetupFrames, and by parity from there on.                 *)

UserActs ==
    /\ frames < SetupFrames
    /\ \/ ClickValve
       \/ \E x \in SliderValues : SlideR1(x)
       \/ \E x \in SliderValues : SlideR2(x)
       \/ ClickReset

\* the browser runs the callback cb
RunFrame(cb) ==
    /\ cb \in rafPending
    /\ frames' = IF frames <= SetupFrames THEN frames + 1 ELSE SetupFrames
    /\ Step(cb)

RunFrames == \E cb \in rafPending : RunFrame(cb)

RunNext ==
    \/ UserActs
    \/ RunFrames
    \/ Render

SpecRun ==
    /\ Init
    /\ [][RunNext]_vars
    /\ WF_vars(RunFrames)
    /\ WF_vars(Render)

----------------------------------------------------------------------------
(* interferenceColor as a function: any thickness, then one call *)

\* no MechanicsExperiment is mounted
NoMechanics ==
    /\ mounted = FALSE
    /\ r1 = InitialR1
    /\ r2 = InitialR2
    /\ valveOpen = FALSE
    /\ animating = FALSE
    /\ queued = [r1 |-> InitialR1, r2 |-> InitialR2, valveOpen |-> FALSE,
                 animating |-> FALSE]
    /\ stateRef = [v1 |-> 0, v2 |-> 0]
    /\ rafId = 0
    /\ rafPending = {}
    /\ atOpen = NoRun
    /\ frames = 0

Thicknesses == (0 - ThicknessSlack) .. (THICKNESS_MAX + ThicknessSlack)

ColorInit ==
    /\ activeTab = "optics"
    /\ NoMechanics
    /\ NoGeometry
    /\ thickness \in Thicknesses
    /\ color = "none"
    /\ last = "thickness"

\* const color = interferenceColor(thickness)
Paint ==
    /\ color = "none"
    /\ color' = interferenceColor(thickness)
    /\ last' = "paint"
    /\ UNCHANGED <<activeTab, mounted, r1, r2, valveOpen, animating, queued,
                   stateRef, rafId, rafPending, atOpen, frames, mode,
                   shownLength, thickness>>

ColorNext == Paint

SpecColor == ColorInit /\ [][ColorNext]_vars

----------------------------------------------------------------------------
(* Shorthands of the properties *)

StoredTotal == stateRef.v1 + stateRef.v2

\* a frame callback ran in the last step
FrameRan == last \in {"step", "collapse", "idle"}

\* the radii and the stored volumes are left as they are
RadiiAndVolumesKept ==
    /\ r1' = r1
    /\ r2' = r2
    /\ queued'.r1 = queued.r1
    /\ queued'.r2 = queued.r2
    /\ stateRef' = stateRef

\* the radius of the volume floor 0.0001
VolumeFloorRadius == VolumeRadius(VolumeFloor)

\* a stored volume, floored at 0.0001, is the volume of a radius below 0.2
BelowCollapseFloor ==
    \/ VolumeRadius(Max(VolumeFloor, stateRef.v1)) < CollapseRadius
    \/ VolumeRadius(Max(VolumeFloor, stateRef.v2)) < CollapseRadius

----------------------------------------------------------------------------
\* C1: every flow step run while the valve is open preserves v1 + v2, so that
\* during the whole run, after any number of steps, the stored total is the
\* total stored when the valve was opened.
VolumeConserved ==
    /\ (mounted /\ valveOpen) => StoredTotal = atOpen.total
    /\ (mounted /\ last = "step") => (valveOpen /\ StoredTotal = atOpen.total)

\* three frames have run, the last a flow step, and the volumes have moved
VolumeConservedWitness ==
    /\ mounted /\ valveOpen /\ last = "step" /\ frames >= 3
    /\ stateRef # SyncedVolumes(r1, r2)
    /\ StoredTotal = atOpen.total

----------------------------------------------------------------------------
\* C2: if r1 < r2 when the valve is opened, every flow step of that run takes
\* volume from A and gives it to B: the volume and the radius of A decrease,
\* those of B increase, and r1 < r2 remains; symmetrically for r1 > r2.  The
\* volumes move strictly; a radius moves by less than 1/RUnit in some steps,
\* so the radii are compared to the resolution of the model.
SmallerBubbleLoses ==
    [][(mounted /\ last' = "step") =>
          /\ atOpen.order = "lt" =>
                /\ stateRef'.v1 < stateRef.v1 /\ stateRef'.v2 > stateRef.v2
                /\ queued'.r1 <= queued.r1 /\ queued'.r2 >= queued.r2
                /\ queued'.r1 < queued'.r2
          /\ atOpen.order = "gt" =>
                /\ stateRef'.v1 > stateRef.v1 /\ stateRef'.v2 < stateRef.v2
                /\ queued'.r1 >= queued.r1 /\ queued'.r2 <= queued.r2
                /\ queued'.r1 > queued'.r2]_vars

----------------------------------------------------------------------------
\* the simulation has terminated by collapse: the stored volumes recover a
\* radius below the collapse floor, and no run is in progress or waits to be
\* rendered
Terminated ==
    /\ mounted
    /\ BelowCollapseFloor
    /\ ~animating /\ ~queued.animating
    /\ queued.r1 = r1 /\ queued.r2 = r2

\* C3: once the simulation has terminated by collapse, a frame tick, its
\* render, or a click that re-opens the valve leaves r1, r2 and the stored
\* volumes unchanged.
TerminatedIsStable ==
    [][(Terminated /\ (FrameRan' \/ last' = "render" \/ last' = "valve"))
          => RadiiAndVolumesKept]_vars

\* the valve was re-opened in a terminated state and the frame has ticked
TerminatedIsStableWitness ==
    /\ Terminated /\ valveOpen /\ last = "collapse"
    /\ (r1 < CollapseRadius \/ r2 < CollapseRadius)

----------------------------------------------------------------------------
\* C4 as claimed: in every reachable state both radii are at or above the
\* collapse floor 0.2.
RadiiAboveCollapseFloor ==
    mounted => /\ r1 >= CollapseRadius /\ r2 >= CollapseRadius
               /\ queued.r1 >= CollapseRadius /\ queued.r2 >= CollapseRadius

\* C4 as amended: in every reachable state both radii are at or above the
\* radius of the volume floor 0.0001 (0.0288); a flow step sets the radii it
\* recovers from the new volumes, below 0.2 or not, and requests the next
\* frame, and a frame that finds a recovered radius below 0.2 closes the valve
\* and requests no frame.
RadiiAboveVolumeFloor ==
    mounted =>
       /\ r1 >= VolumeFloorRadius /\ r2 >= VolumeFloorRadius
       /\ queued.r1 >= VolumeFloorRadius /\ queued.r2 >= VolumeFloorRadius
       /\ last = "step" =>
             /\ rafPending # {}
             /\ queued.r1 = RecoveredRadius(stateRef.v1)
             /\ queued.r2 = RecoveredRadius(stateRef.v2)
       /\ last = "collapse" =>
             /\ rafPending = {}
             /\ ~queued.valveOpen
             /\ BelowCollapseFloor

\* a flow step has set a radius below 0.2 and the next frame is requested
RadiiAboveVolumeFloorWitness ==
    /\ mounted /\ last = "step" /\ rafPending # {}
    /\ (queued.r1 < CollapseRadius \/ queued.r2 < CollapseRadius)

----------------------------------------------------------------------------
\* C5: valveOpen, committed or queued, goes from false to true only by a click
\* on the valve button.
ValveOpensByClickOnly ==
    [][(mounted /\ mounted' /\
          ((~valveOpen /\ valveOpen') \/ (~queued.valveOpen /\ queued'.valveOpen)))
          => last' = "valve"]_vars

\* a collapse had closed the valve and a click has opened it again
ValveOpensByClickOnlyWitness ==
    /\ mounted /\ valveOpen /\ last = "valve"
    /\ BelowCollapseFloor /\ ~animating /\ frames >= 1

----------------------------------------------------------------------------
\* C6: at most one frame callback is pending, and none while the valve is
\* closed or the component unmounted; a flow step runs only with the valve
\* open; and while the valve stays closed, the radii and the stored volumes
\* change only by a slider or the Reset button.
NoStepWhileClosed ==
    [][/\ Cardinality(rafPending') <= 1
       /\ rafPending' # {} => (mounted' /\ valveOpen')
       /\ FrameRan' => (mounted /\ valveOpen)
       /\ (mounted /\ mounted' /\ ~valveOpen /\ ~valveOpen'
             /\ <<r1, r2, stateRef>>' # <<r1, r2, stateRef>>)
            => last' \in {"slider", "reset"}]_vars

\* the valve was closed by a click in the middle of a run: nothing is pending
NoStepWhileClosedWitness ==
    /\ mounted /\ ~valveOpen /\ last = "valve" /\ frames >= 1 /\ animating
    /\ rafPending = {}

----------------------------------------------------------------------------
\* C7: a flow step that runs with equal radii computes a flow of exactly 0
\* and leaves both volumes and both radii unchanged.
EqualRadiiFixedPoint ==
    [][(mounted /\ last' = "step" /\ r1 = r2 /\ queued.r1 = queued.r2) =>
          /\ StepFlow(stateRef) = 0
          /\ RadiiAndVolumesKept]_vars

----------------------------------------------------------------------------
\* C8: in every reachable state, if r1 < r2 the pressure of A is strictly
\* greater than the pressure of B, and symmetrically, for the pressures p1, p2
\* of the flow step that is about to run and for the pressures drawn.
PressureOrdered(a, b, pa, pb) ==
    /\ a < b => pa > pb
    /\ a > b => pa < pb

PressureOrdering ==
    mounted =>
       /\ PressureOrdered(r1, r2, DisplayPressure(r1), DisplayPressure(r2))
       /\ (rafPending # {} /\ ~BelowCollapseFloor) =>
             PressureOrdered(r1, r2,
                             Pressure(RecoveredRadius(stateRef.v1)),
                             Pressure(RecoveredRadius(stateRef.v2)))

----------------------------------------------------------------------------
\* C9: in every reachable state both radii are strictly positive, and the
\* pressures of the flow step and of the display divide by a strictly positive
\* value, whatever the stored volumes.
DivisorsPositive ==
    mounted =>
       /\ r1 > 0 /\ r2 > 0 /\ queued.r1 > 0 /\ queued.r2 > 0
       /\ Max(DisplayRadiusFloor, r1) > 0 /\ Max(DisplayRadiusFloor, r2) > 0
       /\ RecoveredRadius(stateRef.v1) > 0 /\ RecoveredRadius(stateRef.v2) > 0

\* a stored volume is negative
DivisorsPositiveWitness ==
    /\ mounted /\ FrameRan
    /\ (stateRef.v1 <= 0 \/ stateRef.v2 <= 0)

----------------------------------------------------------------------------
\* the text P = ... is 2 * sigma / r to one decimal:
\* |P * r - 2 * sigma| <= r / 20, and the truncation of the division
ShowsLaplacePressure(text, r) ==
    Abs(text * (PUnit \div 10) * r - 2 * SURFACE_TENSION * PUnit * RUnit)
       <= (PUnit \div 20) * r + r

\* C10 as claimed: the pressure drawn for each bubble is 2 * sigma divided by
\* the radius of that bubble.
DrawnPressureIsLaplace ==
    mounted =>
       /\ ShowsLaplacePressure(PressureText(DisplayPressure(r1)), r1)
       /\ ShowsLaplacePressure(PressureText(DisplayPressure(r2)), r2)

\* C10 as amended: the pressure drawn for each bubble is 2 * sigma divided by
\* max(0.1, radius), to one decimal; it is 2 * sigma / radius for every radius
\* of at least 0.1.
DrawnPressureIsClampedLaplace ==
    mounted =>
       /\ ShowsLaplacePressure(PressureText(DisplayPressure(r1)),
                               Max(DisplayRadiusFloor, r1))
       /\ ShowsLaplacePressure(PressureText(DisplayPressure(r2)),
                               Max(DisplayRadiusFloor, r2))
       /\ r1 >= DisplayRadiusFloor =>
             ShowsLaplacePressure(PressureText(DisplayPressure(r1)), r1)
       /\ r2 >= DisplayRadiusFloor =>
             ShowsLaplacePressure(PressureText(DisplayPressure(r2)), r2)

\* a radius below 0.1 is drawn, with the pressure 1000.0
DrawnPressureIsClampedLaplaceWitness ==
    /\ mounted
    /\ (r1 < DisplayRadiusFloor \/ r2 < DisplayRadiusFloor)
    /\ (PressureText(DisplayPressure(r1)) = 10000 \/ PressureText(DisplayPressure(r2)) = 10000)

----------------------------------------------------------------------------
(* The colour bands *)

\* the bands of the colour table: lo <= t < hi, the last one without an upper end
Bands ==
    << [lo |-> 0,   hi |-> 30,  rgb |-> "rgb(20, 20, 20)"],     \* black
       [lo |-> 30,  hi |-> 120, rgb |-> "rgb(240, 240, 250)"],  \* silvery white
       [lo |-> 120, hi |-> 250, rgb |-> "rgb(255, 220, 100)"],  \* gold
       [lo |-> 250, hi |-> 350, rgb |-> "rgb(200, 50, 255)"],   \* purple
       [lo |-> 350, hi |-> 450, rgb |-> "rgb(50, 100, 255)"],   \* blue
       [lo |-> 450, hi |-> 550, rgb |-> "rgb(50, 255, 150)"],   \* green
       [lo |-> 550, hi |-> 650, rgb |-> "rgb(255, 255, 50)"],   \* yellow
       [lo |-> 650, hi |-> 800, rgb |-> "rgb(255, 100, 100)"],  \* red/pink
       [lo |-> 800, hi |-> 0,   rgb |-> "rgb(100, 200, 200)"] >> \* high-order mix

InBand(i, t) ==
    /\ Bands[i].lo <= t
    /\ i = Len(Bands) \/ t < Bands[i].hi

InitialThicknessIsGold ==
    (color # "none" /\ thickness = THICKNESS_INITIAL) => color = Bands[3].rgb

\* C12 amended: the thickness the optics widget starts with, 400 nm, is drawn
\* in the colour of the blue band [350, 450).
InitialThicknessIsBlue ==
    (color # "none" /\ thickness = THICKNESS_INITIAL) => color = Bands[5].rgb

\* the optics widget has just been mounted
InitialThicknessIsBlueWitness ==
    /\ last = "mountOptics"
    /\ thickness = THICKNESS_INITIAL
    /\ color # "none"

----------------------------------------------------------------------------
(* The two path lengths *)

\* a thousandth of the side
LengthTol == LUnit \div 1000

\* x is within LengthTol of the square root of k (x in 1/LUnit)
WithinOfRoot(x, k) ==
    /\ (x - LengthTol) * (x - LengthTol) <= k * LUnit * LUnit
    /\ k * LUnit * LUnit <= (x + LengthTol) * (x + LengthTol)

\* C13: for the unit square lenSoap is below lenDirect, lenSoap within 10^-3
\* of 1 + sqrt(3) (2.732) and lenDirect within 10^-3 of 2 sqrt(2) = sqrt(8)
\* (2.828); and whatever modes were chosen before, the drawn 'Total Path
\* Length' is lenDirect (to three decimals) exactly when the mode is direct,
\* lenSoap when it is soap.
SteinerShorterAndShown ==
    mode # "none" =>
        /\ lenSoap < lenDirect
        /\ WithinOfRoot(lenSoap - LUnit, 3)
        /\ WithinOfRoot(lenDirect, 8)
        /\ ToFixed3(lenSoap) = 2732
        /\ ToFixed3(lenDirect) = 2828
        /\ mode = "direct" => shownLength = ToFixed3(lenDirect)
        /\ mode = "soap" => shownLength = ToFixed3(lenSoap)
        /\ shownLength = ToFixed3(lenDirect) <=> mode = "direct"

\* the mode has been switched to direct
SteinerShorterAndShownWitness ==
    /\ last = "mode"
    /\ mode = "direct"
    /\ shownLength = 2828

----------------------------------------------------------------------------
(* The drawn soap film *)

Min(a, b) == IF a <= b THEN a ELSE b

\* the end points of the drawn lines, and the lines that end at a point
EndPoints(m) == UNION {{l.a, l.b} : l \in Lines(m)}
LinesAt(m, pt) == {l \in Lines(m) : l.a = pt \/ l.b = pt}

\* the junctions: the points where three drawn lines end
Junctions(m) == {pt \in EndPoints(m) : Cardinality(LinesAt(m, pt)) = 3}

\* the square of the corners
Side == p.tr.x - p.tl.x
Midline == (p.tl.x + p.tr.x) \div 2
\* the distance of a point from the nearer of the top and the bottom edge
EdgeOffset(pt) == Min(pt.y - p.tl.y, p.bl.y - pt.y)

\* a tenth of a pixel
PxTol == PxUnit \div 10

\* d is within PxTol of len / sqrt(3)
IsOverRoot3(d, len) ==
    /\ 3 * (d - PxTol) * (d - PxTol) <= len * len
    /\ len * len <= 3 * (d + PxTol) * (d + PxTol)

\* C14 as stated: the two junctions of the soap film lie on the vertical
\* midline (x = 150) and each is side / sqrt(3) away from its nearer
\* horizontal edge (side = 200).
JunctionsOffsetBySide ==
    mode = "soap" =>
        /\ Cardinality(Junctions(mode)) = 2
        /\ \A j \in Junctions(mode) :
              /\ j.x = Midline
              /\ IsOverRoot3(EdgeOffset(j), Side)

\* C14 amended: the two junctions of the soap film lie on the vertical midline
\* (x = 150) and each is (side / 2) / sqrt(3), about 57.7 for side 200, away
\* from its nearer horizontal edge.
JunctionsOffsetByHalfSide ==
    mode = "soap" =>
        /\ Cardinality(Junctions(mode)) = 2
        /\ \A j \in Junctions(mode) :
              /\ j.x = Midline
              /\ IsOverRoot3(EdgeOffset(j), Side \div 2)

\* the soap film is drawn again after the diagonals
JunctionsOffsetByHalfSideWitness ==
    /\ last = "mode"
    /\ mode = "soap"
    /\ Junctions(mode) = {sp1, sp2}
    /\ sp1 # sp2

\* the four corners, and those on the edge nearer to a point
Corners == {p.tl, p.tr, p.bl, p.br}
NearerCorners(pt) == {c \in Corners : Abs(c.y - pt.y) = EdgeOffset(pt)}

\* the other end of a line that ends at pt, and the vector from pt to q
OtherEnd(l, pt) == IF l.a = pt THEN l.b ELSE l.a
Dir(pt, q) == [x |-> q.x - pt.x, y |-> q.y - pt.y]
Dot(u, v) == u.x * v.x + u.y * v.y
Length(u) == SqrtSearch(0, SqrtCeil, Dot(u, u))

\* the angle of u and v is 120 degrees: its cosine within 10^-3 of -1/2
At120(u, v) ==
    Abs(2 * Dot(u, v) + Length(u) * Length(v)) <= (Length(u) * Length(v)) \div 500

\* C15: at each junction of the soap film three drawn segments end, to the
\* two nearer corners and to the other junction, and any two of them meet at
\* 120 degrees (to the resolution of the model).
FilmsMeetAt120 ==
    mode = "soap" =>
        \A j \in Junctions(mode) :
            /\ {OtherEnd(l, j) : l \in LinesAt(mode, j)}
                  = NearerCorners(j) \cup (Junctions(mode) \ {j})
            /\ Cardinality(NearerCorners(j)) = 2
            /\ \A k, l \in LinesAt(mode, j) :
                  k # l => At120(Dir(j, OtherEnd(k, j)), Dir(j, OtherEnd(l, j)))

\* the soap film of a newly mounted widget, with its two junctions
FilmsMeetAt120Witness ==
    /\ last = "mountGeometry"
    /\ mode = "soap"
    /\ Cardinality(Junctions(mode)) = 2

----------------------------------------------------------------------------
(* The stored volumes and the drawn radii *)

\* v is the volume of a sphere of radius r, to the model's resolution of radii
IsVolumeOf(v, r) == SphereVolume(r) <= v /\ v < SphereVolume(r + 1)

\* C16: when the valve has been opened, whatever slider changes, valve clicks,
\* Reset clicks and runs came before, the stored volumes the first flow step
\* will read are the sphere volumes of the radii r1, r2 drawn at that moment.
OpensOnDrawnRadii ==
    (mounted /\ last = "valve" /\ valveOpen) =>
        /\ IsVolumeOf(stateRef.v1, r1)
        /\ IsVolumeOf(stateRef.v2, r2)

\* C17: after a click on Reset the widget is in the state of a new mount:
\* valve closed, r1 = 1.2, r2 = 0.8, no frame requested, and the stored
\* volumes those of 1.2 and 0.8.
ResetRestoresInitial ==
    (mounted /\ last = "reset") =>
        /\ ~valveOpen
        /\ r1 = InitialR1
        /\ r2 = InitialR2
        /\ rafPending = {}
        /\ stateRef = SyncedVolumes(InitialR1, InitialR2)

\* C18: when the valve is closed and every queued update is rendered,
\* animating is false, however the valve was closed (valve button, Reset,
\* slider, collapse).
ClosedMeansNotAnimating ==
    (mounted /\ ~valveOpen /\ queued = Committed) => ~animating

----------------------------------------------------------------------------
(* Termination of a run *)

\* a run is over: the valve is closed, no frame is requested, nothing waits
\* to be rendered
RunEnded ==
    /\ ~valveOpen
    /\ rafPending = {}
    /\ queued = Committed

\* C19: a valve opened on unequal drawn radii, with no input from the user
\* since and none to come, leads to the end of the run: the valve closed by
\* the simulation and no frame requested.  (The claim adds that the smaller
\* bubble's radius is then below 0.2; the formula asks for the end alone.)
UnequalRunTerminates ==
    (mounted /\ valveOpen /\ atOpen.order # "eq" /\ frames >= SetupFrames) ~> RunEnded

----------------------------------------------------------------------------
(* The air-flow particles *)

\* C20: when the air-flow particles are visible (valve open, flowDir other
\* than 'none') and a flow step is applied, the particles' direction is that
\* of the step's volume transfer: 'right' exactly when volume goes from A to
\* B, 'left' exactly when it goes from B to A.
ParticlesFollowTheFlow ==
    [][(mounted /\ valveOpen /\ FlowDir(r1, r2) # "none" /\ last' = "step") =>
          /\ FlowDir(r1, r2) = "right" <=>
                (stateRef'.v1 < stateRef.v1 /\ stateRef'.v2 > stateRef.v2)
          /\ FlowDir(r1, r2) = "left" <=>
                (stateRef'.v1 > stateRef.v1 /\ stateRef'.v2 < stateRef.v2)]_vars

====
